---------------------------- MODULE Spec2Model ----------------------------
(***************************************************************************)
(* A model of the AutumnsGrove/Hooks repository: the two Command Rewriters *)
(* (grep-to-rg.py, npm-to-pnpm.py), the analytics hooks (command-tracker,  *)
(* session-tracker, subagent-tracker), the Test Runner (test-runner.py)    *)
(* and the Deployer (deploy_hooks.py).                                     *)
(*                                                                         *)
(* Text is modelled at character level: a string is a sequence of          *)
(* one-character strings, and the regular expressions of the source are    *)
(* matchers over such sequences.                                           *)
(***************************************************************************)
EXTENDS Integers, Sequences, FiniteSets, TLC

VARIABLES
    rw_pc,        \* position of the Command Rewriter process: "off", "start", "exit"
    rw_hook,      \* which rewriter script runs: "grep-to-rg" or "npm-to-pnpm"
    rw_request,   \* the document on standard input
    rw_stdout,    \* sequence of responses printed to standard output
    rw_exit,      \* exit status of the process (-1 while running)
    proc,         \* the analytics hook processes: what each runs, where it is, its locals
    tc_table,     \* whether table tool_calls exists in tool_calls.db
    tool_calls,   \* the rows of table tool_calls, in insertion order
    sessions,     \* the set of rows of table sessions of sessions.db, keyed by id
    subagent_sessions,  \* the rows of table subagent_sessions
    clock,        \* the store's CURRENT_TIMESTAMP, in seconds
    tc_completed, \* history: per session, the command-tracker runs that exited 0
    tr_pc,        \* position of the Test Runner process
    tr_request,   \* the document on its standard input
    file_paths,   \* the touched files it read from CLAUDE_FILE_PATHS
    test_files,   \* those of them it classified as test files
    language,     \* the language of the first of them
    test_command, \* the framework it detected
    executed,     \* the command lines it ran in a subprocess, in order
    tr_result,    \* what came of the subprocess
    tr_exit,      \* exit status of the process (-1 while running)
    dp_pc,        \* "off", or "ready": the Deployer can be run
    dp_source,    \* the entries of src/hooks
    settings,     \* the document ~/.claude/settings.json
    installed,    \* the file names in ~/.claude/hooks
    dp_runs,      \* Deployer runs so far
    dp_exit       \* exit status of the last Deployer run (-1 before the first)

rw_vars == <<rw_pc, rw_hook, rw_request, rw_stdout, rw_exit>>

an_vars == <<proc, tc_table, tool_calls, sessions, subagent_sessions, clock,
             tc_completed>>

tr_vars == <<tr_pc, tr_request, file_paths, test_files, language, test_command,
             executed, tr_result, tr_exit>>

dp_vars == <<dp_pc, dp_source, settings, installed, dp_runs, dp_exit>>

vars == <<rw_vars, an_vars, tr_vars, dp_vars>>

(***************************************************************************)
(* Bounds of the model.                                                    *)
(***************************************************************************)
MaxAtoms == 4      \* atoms a rewriter command is made of
MaxAtomsAll == 2   \* the same, where all the hooks are checked together
MaxRows == 2       \* rows inserted into tool_calls and subagent_sessions, in all
MaxPaths == 4      \* entries of CLAUDE_FILE_PATHS
MaxGroups == 2     \* groups of PreToolUse before the first Deployer run
MaxRuns == 2       \* Deployer runs

(***************************************************************************)
(* Characters and character classes of Python's re module.                 *)
(***************************************************************************)
Letters == {"a", "b", "c", "d", "e", "f", "g", "h", "i", "j", "k", "l", "m",
            "n", "o", "p", "q", "r", "s", "t", "u", "v", "w", "x", "y", "z"}

IsWord(c) == c \in Letters \cup {"_", "0", "1", "2"}

IsSpace(c) == c \in {" ", "\n", "\t"}

\* \b at position i (between s[i-1] and s[i]).
WordBoundary(s, i) ==
    ((i > 1) /\ (i - 1 <= Len(s)) /\ IsWord(s[i - 1]))
        # ((i >= 1) /\ (i <= Len(s)) /\ IsWord(s[i]))

\* $ at position i: the end of the string, or just before a final newline.
AtDollar(s, i) == (i = Len(s) + 1) \/ (i = Len(s) /\ s[i] = "\n")

\* the literal lit occurs in s starting at position i
LitAt(s, i, lit) ==
    /\ i >= 1
    /\ i + Len(lit) - 1 <= Len(s)
    /\ \A k \in 1..Len(lit) : s[i + k - 1] = lit[k]

\* length of the run of whitespace of s starting at position i (greedy \s*)
RECURSIVE SpacesFrom(_, _)
SpacesFrom(s, i) ==
    IF i >= 1 /\ i <= Len(s) /\ IsSpace(s[i]) THEN 1 + SpacesFrom(s, i + 1) ELSE 0

SetMax(S) == CHOOSE x \in S : \A y \in S : y <= x

Npm == <<"n", "p", "m">>
Pnpm == <<"p", "n", "p", "m">>
Install == <<"i", "n", "s", "t", "a", "l", "l">>
ShortI == <<"i">>
Uninstall == <<"u", "n", "i", "n", "s", "t", "a", "l", "l">>
Un == <<"u", "n">>
DashG == <<"-", "g">>
PnpmAddSp == <<"p", "n", "p", "m", " ", "a", "d", "d", " ">>
PnpmAddG == <<"p", "n", "p", "m", " ", "a", "d", "d", " ", "-", "g">>
PnpmRemove == <<"p", "n", "p", "m", " ", "r", "e", "m", "o", "v", "e">>
PnpmInstall == <<"p", "n", "p", "m", " ", "i", "n", "s", "t", "a", "l", "l">>
Grep == <<"g", "r", "e", "p">>
Rg == <<"r", "g">>

(***************************************************************************)
(* The regular expressions of npm-to-pnpm.py.  A matcher gives the         *)
(* position after the match that starts at position i, or 0 when the       *)
(* pattern does not match there.                                           *)
(***************************************************************************)
\* \bnpm\s+<sub> : the position after <sub>, or 0
ReNpmSub(s, i, sub) ==
    IF WordBoundary(s, i) /\ LitAt(s, i, Npm)
    THEN LET k == SpacesFrom(s, i + 3)
         IN  IF k >= 1 /\ LitAt(s, i + 3 + k, sub)
             THEN i + 3 + k + Len(sub)
             ELSE 0
    ELSE 0

\* \bnpm\s+<sub>\s+(?!$)(?!-) : \s+ is greedy and backtracks to the longest
\* run after which neither lookahead rejects
ReInstallArg(s, i, sub) ==
    LET q == ReNpmSub(s, i, sub)
        r == SpacesFrom(s, q)
        ok == {k \in 1..r : /\ ~AtDollar(s, q + k)
                            /\ ~(q + k <= Len(s) /\ s[q + k] = "-")}
    IN  IF q = 0 \/ ok = {} THEN 0 ELSE q + SetMax(ok)

\* \bnpm\s+<sub>\s+-g\b
ReInstallGlobal(s, i, sub) ==
    LET q == ReNpmSub(s, i, sub)
        r == SpacesFrom(s, q)
    IN  IF q # 0 /\ r >= 1 /\ LitAt(s, q + r, DashG) /\ WordBoundary(s, q + r + 2)
        THEN q + r + 2
        ELSE 0

\* \bnpm\s+<sub>\b
ReSubcommand(s, i, sub) ==
    LET q == ReNpmSub(s, i, sub)
    IN  IF q # 0 /\ WordBoundary(s, q) THEN q ELSE 0

\* \bnpm\s+<sub>\s*$
ReInstallBare(s, i, sub) ==
    LET q == ReNpmSub(s, i, sub)
        r == SpacesFrom(s, q)
        ok == {k \in 0..r : AtDollar(s, q + k)}
    IN  IF q = 0 \/ ok = {} THEN 0 ELSE q + SetMax(ok)

\* \bnpm\b
ReNpm(s, i) ==
    IF WordBoundary(s, i) /\ LitAt(s, i, Npm) /\ WordBoundary(s, i + 3)
    THEN i + 3
    ELSE 0

\* the matcher of a pattern <<kind, sub>>
ReMatch(pat, s, i) ==
    CASE pat[1] = "install_arg"    -> ReInstallArg(s, i, pat[2])
      [] pat[1] = "install_global" -> ReInstallGlobal(s, i, pat[2])
      [] pat[1] = "subcommand"     -> ReSubcommand(s, i, pat[2])
      [] pat[1] = "install_bare"   -> ReInstallBare(s, i, pat[2])
      [] pat[1] = "npm"            -> ReNpm(s, i)

\* re.search(pat, s)
ReSearch(pat, s) == \E i \in 1..Len(s) : ReMatch(pat, s, i) # 0

\* re.sub(pat, repl, s) from position i on: leftmost matches, not overlapping
RECURSIVE ReSubFrom(_, _, _, _)
ReSubFrom(pat, repl, s, i) ==
    IF i > Len(s) THEN <<>>
    ELSE LET e == ReMatch(pat, s, i)
         IN  IF e # 0
             THEN repl \o ReSubFrom(pat, repl, s, e)
             ELSE <<s[i]>> \o ReSubFrom(pat, repl, s, i + 1)

ReSub(pat, repl, s) == ReSubFrom(pat, repl, s, 1)

\* the ordered rewrite rules of npm-to-pnpm.py
NpmRules ==
    << << <<"install_arg", Install>>,      PnpmAddSp >>,
       << <<"install_arg", ShortI>>,       PnpmAddSp >>,
       << <<"install_global", Install>>,   PnpmAddG >>,
       << <<"install_global", ShortI>>,    PnpmAddG >>,
       << <<"subcommand", Uninstall>>,     PnpmRemove >>,
       << <<"subcommand", Un>>,            PnpmRemove >>,
       << <<"install_bare", Install>>,     PnpmInstall >>,
       << <<"install_bare", ShortI>>,      PnpmInstall >>,
       << <<"npm", <<>> >>,                Pnpm >> >>

RECURSIVE ApplyRules(_, _, _)
ApplyRules(rules, k, s) ==
    IF k > Len(rules) THEN s
    ELSE ApplyRules(rules, k + 1, ReSub(rules[k][1], rules[k][2], s))

\* npm-to-pnpm.py without its last, generic substitution
NpmRewriteNoFallback(command) ==
    ApplyRules(SubSeq(NpmRules, 1, Len(NpmRules) - 1), 1, command)

\* new_command of npm-to-pnpm.py
NpmRewrite(command) == ApplyRules(NpmRules, 1, command)

\* a trigger test that is not word-bounded: "npm" in command
NpmTriggerSubstring(command) == \E i \in 1..Len(command) : LitAt(command, i, Npm)

\* the trigger test of npm-to-pnpm.py: re.search(r'\bnpm\b', command)
NpmTrigger(command) == ReSearch(<<"npm", <<>> >>, command)

(***************************************************************************)
(* grep-to-rg.py: "grep" in command, and command.replace("grep", "rg").    *)
(***************************************************************************)
StrContains(s, lit) == \E i \in 1..Len(s) : LitAt(s, i, lit)

RECURSIVE StrReplaceFrom(_, _, _, _)
StrReplaceFrom(s, old, new, i) ==
    IF i > Len(s) THEN <<>>
    ELSE IF LitAt(s, i, old)
         THEN new \o StrReplaceFrom(s, old, new, i + Len(old))
         ELSE <<s[i]>> \o StrReplaceFrom(s, old, new, i + 1)

StrReplace(s, old, new) == StrReplaceFrom(s, old, new, 1)

\* command.replace("grep", "rg", 1): the first occurrence only
GrepRewriteFirstOnly(command) ==
    IF \E i \in 1..Len(command) : LitAt(command, i, Grep)
    THEN LET i == CHOOSE i \in 1..Len(command) :
                      /\ LitAt(command, i, Grep)
                      /\ \A j \in 1..(i - 1) : ~LitAt(command, j, Grep)
         IN  SubSeq(command, 1, i - 1) \o Rg \o SubSeq(command, i + 4, Len(command))
    ELSE command

GrepRewrite(command) == StrReplace(command, Grep, Rg)

GrepTrigger(command) == StrContains(command, Grep)

(***************************************************************************)
(* The requests a rewriter is run on.  A command is a concatenation of at  *)
(* most MaxAtoms atoms of the vocabulary of its rewriter.                  *)
(***************************************************************************)
NpmAtoms ==
    { Npm,
      <<" ", "i", "n", "s", "t", "a", "l", "l">>,
      <<" ", "i">>,
      <<" ", "u", "n", "i", "n", "s", "t", "a", "l", "l">>,
      <<" ", "u", "n">>,
      <<" ", "-", "g">>,
      <<" ", "p", "k", "g">>,
      <<" ", "&", "&">>,
      <<" ">>,
      <<"x">>,
      <<"\n">> }

GrepAtoms ==
    { Grep, <<"g">>, <<"r", "e", "p">>, <<" ">>, <<"f", "o", "o">>, Rg }

RECURSIVE Commands(_, _)
Commands(atoms, n) ==
    IF n = 0 THEN { <<>> }
    ELSE LET shorter == Commands(atoms, n - 1)
         IN  shorter \cup { a \o c : a \in atoms, c \in shorter }

HookAtoms(hook) == IF hook = "grep-to-rg" THEN GrepAtoms ELSE NpmAtoms

\* json: "malformed" when standard input is no JSON object; has_command is
\* FALSE when tool_input or its command key is missing
Requests(hook, n) ==
    [json : {"object"}, tool_name : {"Bash", "Edit", "<missing>"},
     has_command : {TRUE}, command : Commands(HookAtoms(hook), n)]
    \cup [json : {"object"}, tool_name : {"Bash", "Edit", "<missing>"},
          has_command : {FALSE}, command : { <<>> }]
    \cup [json : {"malformed"}, tool_name : {"<missing>"},
          has_command : {FALSE}, command : { <<>> }]

\* tool_input.get("command", "")
RequestCommand(req) == IF req.has_command THEN req.command ELSE <<>>

\* the response document printed by a rewriter
Response(new_command) ==
    [hookEventName |-> "PreToolUse", permissionDecision |-> "allow",
     command |-> new_command]

RewriterHooks == {"grep-to-rg", "npm-to-pnpm"}

RewriterOff ==
    /\ rw_pc = "off"
    /\ rw_hook = "grep-to-rg"
    /\ rw_request = [json |-> "malformed", tool_name |-> "<missing>",
                     has_command |-> FALSE, command |-> <<>>]
    /\ rw_stdout = <<>>
    /\ rw_exit = -1

InitRewriter(n) ==
    /\ rw_pc = "start"
    /\ rw_hook \in RewriterHooks
    /\ rw_request \in Requests(rw_hook, n)
    /\ rw_stdout = <<>>
    /\ rw_exit = -1

\* one run of a rewriter script: hook names the script, triggered is its test
\* of the command and new_command its substitution
RunRewriter(hook, triggered, new_command) ==
    /\ rw_pc = "start"
    /\ rw_hook = hook
    /\ rw_pc' = "exit"
    /\ IF rw_request.json # "object"
       THEN \* json.load raises: traceback, exit status 1
            /\ rw_stdout' = rw_stdout
            /\ rw_exit' = 1
       ELSE IF rw_request.tool_name # "Bash"
       THEN /\ rw_stdout' = rw_stdout
            /\ rw_exit' = 0
       ELSE IF triggered
       THEN /\ rw_stdout' = Append(rw_stdout, Response(new_command))
            /\ rw_exit' = 0
       ELSE /\ rw_stdout' = rw_stdout
            /\ rw_exit' = 0
    /\ UNCHANGED <<rw_hook, rw_request>>
    /\ UNCHANGED <<an_vars, tr_vars, dp_vars>>

GrepToRg ==
    RunRewriter("grep-to-rg", GrepTrigger(RequestCommand(rw_request)),
                GrepRewrite(RequestCommand(rw_request)))

NpmToPnpm ==
    RunRewriter("npm-to-pnpm", NpmTrigger(RequestCommand(rw_request)),
                NpmRewrite(RequestCommand(rw_request)))

NextRewriter == GrepToRg \/ NpmToPnpm

(***************************************************************************)
(* The analytics hooks: command-tracker.py (Tool-Call Logger),             *)
(* session-tracker.py (Session Logger), subagent-tracker.py (Subagent      *)
(* Logger).  Each invocation is a process of its own; the stores are       *)
(* SQLite files, and a statement that the store cannot run (the file is    *)
(* locked past the busy timeout, unwritable, of another schema) raises.    *)
(***************************************************************************)
Procs == {"p1"}

NULL == "NULL"

\* os.getenv("CLAUDE_SESSION_ID", "unknown")
SessionIds == {"unknown", "s1"}

\* os.getenv("CLAUDE_MODEL", "unknown")
Models == {"unknown"}

\* the documents command-tracker.py is run on
ToolRequests ==
    { [tool_name |-> "Bash",  tool_input |-> [command |-> "ls", description |-> "list"]],
      [tool_name |-> "Edit",  tool_input |-> [file_path |-> "f1"]],
      [tool_name |-> "Grep",  tool_input |-> [pattern |-> "TODO"]] }

\* the documents subagent-tracker.py is run on; has_fields is FALSE for {}
SubagentRequests ==
    { [has_fields |-> TRUE, subagent_type |-> "explore", summary |-> "done",
       files_modified |-> <<"f1", "f2">>],
      [has_fields |-> FALSE, subagent_type |-> NULL, summary |-> NULL,
       files_modified |-> <<>>] }

NoRequest == [tool_name |-> "none", tool_input |-> [none |-> NULL]]

\* dict.get(key): None when the key is absent
Get(d, key) == IF key \in DOMAIN d THEN d[key] ELSE NULL

IdleProc ==
    [hook |-> "none", pc |-> "idle", session_id |-> "unknown", model |-> "unknown",
     request |-> NoRequest, tool_count |-> 0, file_count |-> 0, command_count |-> 0,
     duration_seconds |-> 0, warned |-> FALSE, stderr |-> "", exit |-> -1]

CanStart(p) == proc[p].pc = "idle"

\* rows inserted so far, and those the running Tool-Call Loggers will insert
RowsInAll ==
    Len(tool_calls) + Len(subagent_sessions)
        + Cardinality({q \in Procs : proc[q].pc = "tc_insert"})

\* what a hook leaves on its error stream: a traceback, the warning of the
\* Session Logger, or neither (Quiet; informational lines are left out)
Quiet == ""
Traceback == "Traceback (most recent call last)"
Warning == "Warning: Could not get tool stats"

\* process p ends with exit status `status`, `stderr` on its error stream: its
\* locals are gone.  An exception nothing catches ends the interpreter with a
\* traceback and status 1.
Exit(p, hook, status, stderr) ==
    proc' = [proc EXCEPT ![p] = [IdleProc EXCEPT !.hook = hook, !.pc = "done",
                                                 !.stderr = stderr, !.exit = status]]

\* the host collects the exit status of p: the slot is free again
Reap(p) ==
    /\ proc[p].pc = "done"
    /\ proc' = [proc EXCEPT ![p] = IdleProc]
    /\ UNCHANGED <<tc_table, tool_calls, sessions, subagent_sessions, clock, tc_completed>>
    /\ UNCHANGED <<rw_vars, tr_vars, dp_vars>>

\* the row command-tracker.py inserts
ToolCallRow(id, session_id, req, now) ==
    [id |-> id, session_id |-> session_id, timestamp |-> now,
     tool_type |-> req.tool_name,
     file_path |-> Get(req.tool_input, "file_path"),
     command |-> Get(req.tool_input, "command"),
     pattern |-> Get(req.tool_input, "pattern"),
     description |-> Get(req.tool_input, "description"),
     params_json |-> req.tool_input,
     success |-> TRUE]

\* the time an insert is stamped with: time may have passed since the last
\* one; the clock starts with the first row
Now == IF tool_calls = <<>> THEN {clock} ELSE {clock, clock + 1}

StartFaults == {"none", "json", "store"}

(* command-tracker.py, lines 26-67: create the directory, read the document, *)
(* connect, create the table and its indexes.                                *)
StartCommandTracker(p, session_id, req, fault) ==
    /\ CanStart(p)
    /\ RowsInAll < MaxRows
    /\ IF fault = "none"
       THEN /\ proc' = [proc EXCEPT ![p] =
                    [IdleProc EXCEPT !.hook = "command-tracker", !.pc = "tc_insert",
                                     !.session_id = session_id, !.request = req]]
            /\ tc_table' = TRUE
       ELSE \* json.load or sqlite3 raises: traceback, exit status 1
            /\ Exit(p, "command-tracker", 1, Traceback)
            /\ tc_table' = tc_table
    /\ UNCHANGED <<tool_calls, sessions, subagent_sessions, clock, tc_completed>>
    /\ UNCHANGED <<rw_vars, tr_vars, dp_vars>>

\* the INSERT of command-tracker.py with two rows instead of one
InsertToolCallTwice(rows, session_id, req, now) ==
    rows \o << ToolCallRow(Len(rows) + 1, session_id, req, now),
               ToolCallRow(Len(rows) + 2, session_id, req, now) >>

\* the INSERT of command-tracker.py, lines 70-82
InsertToolCall(rows, session_id, req, now) ==
    Append(rows, ToolCallRow(Len(rows) + 1, session_id, req, now))

(* command-tracker.py, lines 69-90: insert, commit, close, exit 0 *)
CommandTrackerInsert(p, fault) ==
    /\ proc[p].pc = "tc_insert"
    /\ IF fault
       THEN /\ Exit(p, "command-tracker", 1, Traceback)
            /\ UNCHANGED <<tool_calls, clock, tc_completed>>
       ELSE \E now \in Now :
            /\ tool_calls' = InsertToolCall(tool_calls, proc[p].session_id,
                                            proc[p].request, now)
            /\ clock' = now
            /\ tc_completed' = [tc_completed EXCEPT ![proc[p].session_id] = @ + 1]
            /\ Exit(p, "command-tracker", 0, Quiet)
    /\ UNCHANGED <<tc_table, sessions, subagent_sessions>>
    /\ UNCHANGED <<rw_vars, tr_vars, dp_vars>>

(* command-tracker.py, the whole script, run by another process of the host  *)
(* while the hook of a process of Procs is under way: its statements take    *)
(* effect at its commit.                                                     *)
CommandTrackerAlongside(session_id, req) ==
    /\ RowsInAll < MaxRows
    /\ \E now \in Now :
            /\ tool_calls' = InsertToolCall(tool_calls, session_id, req, now)
            /\ clock' = now
    /\ tc_table' = TRUE
    /\ tc_completed' = [tc_completed EXCEPT ![session_id] = @ + 1]
    /\ UNCHANGED <<proc, sessions, subagent_sessions>>
    /\ UNCHANGED <<rw_vars, tr_vars, dp_vars>>

(* session-tracker.py, lines 26-58: create the directory, read the document, *)
(* connect to sessions.db, create table sessions, zero the statistics.       *)
StartSessionTracker(p, session_id, model, fault) ==
    /\ CanStart(p)
    /\ IF fault = "none"
       THEN /\ proc' = [proc EXCEPT ![p] =
                    [IdleProc EXCEPT !.hook = "session-tracker", !.pc = "ss_count_tools",
                                     !.session_id = session_id, !.model = model]]
       ELSE Exit(p, "session-tracker", 1, Traceback)
    /\ UNCHANGED <<tc_table, tool_calls, sessions, subagent_sessions, clock, tc_completed>>
    /\ UNCHANGED <<rw_vars, tr_vars, dp_vars>>

\* SELECT COUNT(*) FROM tool_calls WHERE session_id = ?
SelectCountTools(rows, session_id) ==
    Cardinality({i \in 1..Len(rows) : rows[i].session_id = session_id})

\* SELECT COUNT(DISTINCT file_path) ... WHERE session_id = ? AND file_path IS NOT NULL
SelectCountFiles(rows, session_id) ==
    Cardinality({rows[i].file_path : i \in {j \in 1..Len(rows) :
                    rows[j].session_id = session_id /\ rows[j].file_path # NULL}})

\* SELECT COUNT(*) ... WHERE session_id = ? AND tool_type = 'Bash'
SelectCountCommands(rows, session_id) ==
    Cardinality({i \in 1..Len(rows) :
                    rows[i].session_id = session_id /\ rows[i].tool_type = "Bash"})

\* SELECT CAST((julianday(MAX(timestamp)) - julianday(MIN(timestamp))) * 86400
\* AS INTEGER), and "result[0] if result[0] else 0": whole seconds between the
\* first and the last row of the session, 0 when it has no row
SelectDuration(rows, session_id) ==
    LET ts == {rows[i].timestamp : i \in {j \in 1..Len(rows) :
                    rows[j].session_id = session_id}}
    IN  IF ts = {} THEN 0
        ELSE (CHOOSE x \in ts : \A y \in ts : y <= x)
               - (CHOOSE x \in ts : \A y \in ts : x <= y)

\* a statement on tool_calls.db raises: the caller says so (locked, other
\* schema), or the table is not there
ReadRaises(fault) == fault \/ ~tc_table

\* a failed read that nothing catches
ReadFailedFatal(p) == Exit(p, "session-tracker", 1, Traceback)

\* the except branch of session-tracker.py, lines 94-95: a warning, and on to
\* the upsert with the statistics as they are
ReadFailed(p) ==
    proc' = [proc EXCEPT ![p].warned = TRUE, ![p].pc = "ss_upsert"]

SessionReadFrame ==
    UNCHANGED <<tc_table, tool_calls, sessions, subagent_sessions, clock, tc_completed>>

(* session-tracker.py, lines 61-68 *)
SessionCountTools(p, fault) ==
    /\ proc[p].pc = "ss_count_tools"
    /\ IF ReadRaises(fault) THEN ReadFailed(p)
       ELSE proc' = [proc EXCEPT
                ![p].tool_count = SelectCountTools(tool_calls, proc[p].session_id),
                ![p].pc = "ss_count_files"]
    /\ SessionReadFrame
    /\ UNCHANGED <<rw_vars, tr_vars, dp_vars>>

(* session-tracker.py, lines 70-75 *)
SessionCountFiles(p, fault) ==
    /\ proc[p].pc = "ss_count_files"
    /\ IF ReadRaises(fault) THEN ReadFailed(p)
       ELSE proc' = [proc EXCEPT
                ![p].file_count = SelectCountFiles(tool_calls, proc[p].session_id),
                ![p].pc = "ss_count_commands"]
    /\ SessionReadFrame
    /\ UNCHANGED <<rw_vars, tr_vars, dp_vars>>

(* session-tracker.py, lines 77-82 *)
SessionCountCommands(p, fault) ==
    /\ proc[p].pc = "ss_count_commands"
    /\ IF ReadRaises(fault) THEN ReadFailed(p)
       ELSE proc' = [proc EXCEPT
                ![p].command_count = SelectCountCommands(tool_calls, proc[p].session_id),
                ![p].pc = "ss_duration"]
    /\ SessionReadFrame
    /\ UNCHANGED <<rw_vars, tr_vars, dp_vars>>

(* session-tracker.py, lines 84-93 *)
SessionDuration(p, fault) ==
    /\ proc[p].pc = "ss_duration"
    /\ IF ReadRaises(fault) THEN ReadFailed(p)
       ELSE proc' = [proc EXCEPT
                ![p].duration_seconds = SelectDuration(tool_calls, proc[p].session_id),
                ![p].pc = "ss_upsert"]
    /\ SessionReadFrame
    /\ UNCHANGED <<rw_vars, tr_vars, dp_vars>>

\* summary = f"Session completed: {tool_count} tools, {file_count} files, ..."
Summary(tool_count, file_count, command_count) ==
    <<"Session completed:", tool_count, "tools,", file_count, "files,",
      command_count, "commands">>

\* the row session-tracker.py writes; its timestamp column takes the store's
\* default and is read by no hook: it is left out
SessionRow(p) ==
    [id |-> proc[p].session_id, model |-> proc[p].model,
     summary |-> Summary(proc[p].tool_count, proc[p].file_count, proc[p].command_count),
     tool_count |-> proc[p].tool_count, file_count |-> proc[p].file_count,
     command_count |-> proc[p].command_count,
     duration_seconds |-> proc[p].duration_seconds]

\* the rows of a table other than those with primary key id
Without(rows, id) == {r \in rows : r.id # id}

\* a plain INSERT INTO sessions
InsertSession(rows, row) == rows \cup {row}

\* INSERT OR REPLACE INTO sessions: id is the primary key
InsertOrReplaceSession(rows, row) == Without(rows, row.id) \cup {row}

(* session-tracker.py, lines 97-121: summary, upsert, commit, close, exit 0 *)
SessionUpsert(p, fault) ==
    /\ proc[p].pc = "ss_upsert"
    /\ IF fault
       THEN /\ Exit(p, "session-tracker", 1, Traceback)
            /\ sessions' = sessions
       ELSE /\ sessions' = InsertOrReplaceSession(sessions, SessionRow(p))
            /\ Exit(p, "session-tracker", 0,
                    IF proc[p].warned THEN Warning ELSE Quiet)
    /\ UNCHANGED <<tc_table, tool_calls, subagent_sessions, clock, tc_completed>>
    /\ UNCHANGED <<rw_vars, tr_vars, dp_vars>>

\* the row subagent-tracker.py inserts, with the defaults of its input.get
\* calls; its timestamp column takes the store's default and is read by no
\* hook: it is left out
SubagentRow(id, session_id, req) ==
    [id |-> id, parent_session_id |-> session_id,
     subagent_type |-> IF req.has_fields THEN req.subagent_type ELSE "unknown",
     summary |-> IF req.has_fields THEN req.summary ELSE "",
     files_modified_json |-> req.files_modified,
     file_count |-> Len(req.files_modified)]

(* subagent-tracker.py, the whole script *)
RunSubagentTracker(p, session_id, req, fault) ==
    /\ CanStart(p)
    /\ RowsInAll < MaxRows
    /\ IF fault = "none"
       THEN /\ subagent_sessions' = Append(subagent_sessions,
                    SubagentRow(Len(subagent_sessions) + 1, session_id, req))
            /\ Exit(p, "subagent-tracker", 0, Quiet)
       ELSE /\ subagent_sessions' = subagent_sessions
            /\ Exit(p, "subagent-tracker", 1, Traceback)
    /\ UNCHANGED <<tc_table, tool_calls, sessions, clock, tc_completed>>
    /\ UNCHANGED <<rw_vars, tr_vars, dp_vars>>

AnalyticsOff ==
    /\ proc = [p \in Procs |-> [IdleProc EXCEPT !.pc = "off"]]
    /\ tc_table = FALSE
    /\ tool_calls = <<>>
    /\ sessions = {}
    /\ subagent_sessions = <<>>
    /\ clock = 0
    /\ tc_completed = [s \in SessionIds |-> 0]

\* a fresh home directory: no store yet
InitAnalytics ==
    /\ proc = [p \in Procs |-> IdleProc]
    /\ tc_table = FALSE
    /\ tool_calls = <<>>
    /\ sessions = {}
    /\ subagent_sessions = <<>>
    /\ clock = 0
    /\ tc_completed = [s \in SessionIds |-> 0]

\* the hooks of the processes of Procs, step by step
NextHooks ==
    \E p \in Procs :
        \/ \E sid \in SessionIds, req \in ToolRequests, fault \in StartFaults :
              StartCommandTracker(p, sid, req, fault)
        \/ \E fault \in BOOLEAN : CommandTrackerInsert(p, fault)
        \/ \E sid \in SessionIds, model \in Models, fault \in StartFaults :
              StartSessionTracker(p, sid, model, fault)
        \/ \E fault \in BOOLEAN : SessionCountTools(p, fault)
        \/ \E fault \in BOOLEAN : SessionCountFiles(p, fault)
        \/ \E fault \in BOOLEAN : SessionCountCommands(p, fault)
        \/ \E fault \in BOOLEAN : SessionDuration(p, fault)
        \/ \E fault \in BOOLEAN : SessionUpsert(p, fault)
        \/ \E sid \in SessionIds, req \in SubagentRequests, fault \in StartFaults :
              RunSubagentTracker(p, sid, req, fault)
        \/ Reap(p)

\* the hooks as the host runs them: separate processes, at overlapping times
NextAnalytics ==
    \/ NextHooks
    \/ \E sid \in SessionIds, req \in ToolRequests : CommandTrackerAlongside(sid, req)

\* the hooks run one after the other, each to its end, on stores that nothing
\* else touches: a read fails only for want of the table
NextSequential ==
    \/ \E sid \in SessionIds, req \in ToolRequests, fault \in StartFaults :
          StartCommandTracker("p1", sid, req, fault)
    \/ \E fault \in BOOLEAN : CommandTrackerInsert("p1", fault)
    \/ \E sid \in SessionIds, model \in Models, fault \in StartFaults :
          StartSessionTracker("p1", sid, model, fault)
    \/ SessionCountTools("p1", FALSE)
    \/ SessionCountFiles("p1", FALSE)
    \/ SessionCountCommands("p1", FALSE)
    \/ SessionDuration("p1", FALSE)
    \/ \E fault \in BOOLEAN : SessionUpsert("p1", fault)
    \/ \E sid \in SessionIds, req \in SubagentRequests, fault \in StartFaults :
          RunSubagentTracker("p1", sid, req, fault)
    \/ Reap("p1")

(***************************************************************************)
(* The Test Runner: test-runner.py.  It reads the request, the touched     *)
(* files from the environment, the disk and the project directory, and     *)
(* runs one test command in a subprocess.                                  *)
(***************************************************************************)
\* "if len(test_files) <= 3", test-runner.py line 99
ScopeLimit == 3

Comma == ","
Space == <<" ">>
NoLanguage == "None"
NoFramework == <<>>

\* str.split(sep) for a one-character separator, from position i on; cur is
\* the piece read so far
RECURSIVE SplitFrom(_, _, _, _)
SplitFrom(s, sep, i, cur) ==
    IF i > Len(s) THEN <<cur>>
    ELSE IF s[i] = sep THEN <<cur>> \o SplitFrom(s, sep, i + 1, <<>>)
    ELSE SplitFrom(s, sep, i + 1, Append(cur, s[i]))

Split(s, sep) == SplitFrom(s, sep, 1, <<>>)

RECURSIVE LStrip(_)
LStrip(s) == IF s # <<>> /\ IsSpace(s[1]) THEN LStrip(Tail(s)) ELSE s

RECURSIVE RStrip(_)
RStrip(s) ==
    IF s # <<>> /\ IsSpace(s[Len(s)]) THEN RStrip(SubSeq(s, 1, Len(s) - 1)) ELSE s

\* str.strip()
Strip(s) == RStrip(LStrip(s))

\* sep.join(parts)
RECURSIVE Join(_, _)
Join(sep, parts) ==
    IF parts = <<>> THEN <<>>
    ELSE IF Len(parts) = 1 THEN parts[1]
    ELSE parts[1] \o sep \o Join(sep, Tail(parts))

\* [p.strip() for p in file_paths_str.split(",") if p.strip()], line 45
ParseFilePaths(file_paths_str) ==
    LET pieces == Split(file_paths_str, Comma)
        stripped == [k \in 1..Len(pieces) |-> Strip(pieces[k])]
    IN  SelectSeq(stripped, LAMBDA p : p # <<>>)

\* <lit>$ matches s at position j
EndsAt(s, j, lit) == LitAt(s, j, lit) /\ AtDollar(s, j + Len(lit))

\* . matches every character of s from a to b (no newline)
DotRun(s, a, b) == \A k \in a..b : s[k] # "\n"

\* re.search of <head>.*<tail>$
ReHeadTail(s, head, tail) ==
    \E i \in 1..Len(s) :
        /\ LitAt(s, i, head)
        /\ \E j \in (i + Len(head))..Len(s) :
              EndsAt(s, j, tail) /\ DotRun(s, i + Len(head), j - 1)

\* re.search of .*<tail>$
ReTail(s, tail) == \E j \in 1..Len(s) : EndsAt(s, j, tail)

JsSuffixes == { <<"j", "s">>, <<"t", "s">>, <<"j", "s", "x">>, <<"t", "s", "x">> }

\* TEST_PATTERNS, lines 48-53
TEST_PATTERNS(lang, s) ==
    CASE lang = "python" ->
            ReHeadTail(s, <<"t", "e", "s", "t", "_">>, <<".", "p", "y">>) \/ ReTail(s, <<"_", "t", "e", "s", "t", ".", "p", "y">>)
      [] lang = "javascript" ->
            \E x \in JsSuffixes : ReTail(s, <<".", "t", "e", "s", "t", ".">> \o x) \/ ReTail(s, <<".", "s", "p", "e", "c", ".">> \o x)
      [] lang = "go" -> ReTail(s, <<"_", "t", "e", "s", "t", ".", "g", "o">>)
      [] lang = "rust" -> ReHeadTail(s, <<"t", "e", "s", "t", "s", "/">>, <<".", "r", "s">>)

\* the languages in the order of the dictionary
Languages == <<"python", "javascript", "go", "rust">>

\* is_test_file, lines 55-61: the first language with a matching pattern
is_test_file(file_path) ==
    LET hits == {k \in 1..Len(Languages) : TEST_PATTERNS(Languages[k], file_path)}
    IN  IF hits = {} THEN NoLanguage
        ELSE Languages[CHOOSE k \in hits : \A m \in hits : k <= m]

Pytest == <<"p", "y", "t", "e", "s", "t">>
Unittest == <<"p", "y", "t", "h", "o", "n", " ", "-", "m", " ", "u", "n", "i", "t", "t", "e", "s", "t">>
NpmTest == <<"n", "p", "m", " ", "t", "e", "s", "t">>
GoTest == <<"g", "o", " ", "t", "e", "s", "t">>
CargoTest == <<"c", "a", "r", "g", "o", " ", "t", "e", "s", "t">>

\* detect_test_framework, lines 63-92; markers are the files of the project
\* directory
detect_test_framework(lang, markers) ==
    CASE lang = "python" ->
            IF "pytest.ini" \in markers \/ "pyproject.toml" \in markers
            THEN Pytest ELSE Unittest
      [] lang = "javascript" -> NpmTest
      [] lang = "go" -> GoTest
      [] lang = "rust" -> CargoTest
      [] OTHER -> NoFramework

\* the command line of run_tests, lines 98-113
Cmd(cmdname, files, project_dir) ==
    LET cd == <<"c", "d", " ">> \o project_dir \o <<" ", "&", "&", " ">>
    IN  IF Len(files) <= ScopeLimit
        THEN IF StrContains(cmdname, Pytest)
             THEN cd \o <<"p", "y", "t", "e", "s", "t", " ">> \o Join(Space, files) \o <<" ", "-", "v">>
             ELSE IF StrContains(cmdname, NpmTest)
             THEN cd \o <<"n", "p", "m", " ", "t", "e", "s", "t", " ", "-", "-", " ", "-", "-", "t", "e", "s", "t", "P", "a", "t", "h", "P", "a", "t", "t", "e", "r", "n", "=", "\"">> \o files[1] \o <<"\"">>
             ELSE IF StrContains(cmdname, GoTest)
             THEN cd \o <<"g", "o", " ", "t", "e", "s", "t", " ", "-", "v", " ">> \o Join(Space, files)
             ELSE IF StrContains(cmdname, CargoTest)
             THEN cd \o <<"c", "a", "r", "g", "o", " ", "t", "e", "s", "t">>
             ELSE cd \o cmdname
        ELSE cd \o cmdname

\* the pieces CLAUDE_FILE_PATHS is made of here
EnvEntries ==
    { <<"t", "e", "s", "t", "_", "a", ".", "p", "y">>, <<" ", "b", "_", "t", "e", "s", "t", ".", "p", "y">>, <<"a", ".", "p", "y">>, <<"a", ".", "t", "e", "s", "t", ".", "j", "s">>, <<"a", "_", "t", "e", "s", "t", ".", "g", "o">>, <<"t", "e", "s", "t", "s", "/", "a", ".", "r", "s">>, <<" ">> }

RECURSIVE EntryLists(_)
EntryLists(n) ==
    IF n = 0 THEN { <<>> }
    ELSE LET shorter == EntryLists(n - 1)
         IN  shorter \cup { <<e>> \o l : e \in EnvEntries, l \in {x \in shorter : Len(x) = n - 1} }

\* what os.path.isfile may find: every file, or every file but one
Disks ==
    LET all == { Strip(e) : e \in EnvEntries } \ { <<>> }
    IN  { all, all \ { <<"t", "e", "s", "t", "_", "a", ".", "p", "y">> } }

MarkerSets == { {}, {"pytest.ini"}, {"pyproject.toml", "package.json"} }

\* os.getenv("CLAUDE_PROJECT_DIR", os.getcwd())
ProjectDir == <<"/", "p", "r", "o", "j">>

TestOutcomes == {"passed", "failed", "timeout", "error"}

TestRunnerRequests ==
    { [json |-> "malformed", tool_name |-> "<missing>"] }
        \cup { [json |-> "object", tool_name |-> t] :
                    t \in {"Edit", "Write", "Bash", "<missing>"} }

TestRunnerOff ==
    /\ tr_pc = "off"
    /\ tr_request = [json |-> "malformed", tool_name |-> "<missing>"]
    /\ file_paths = <<>>
    /\ test_files = <<>>
    /\ language = NoLanguage
    /\ test_command = NoFramework
    /\ executed = <<>>
    /\ tr_result = "none"
    /\ tr_exit = -1

InitTestRunner ==
    /\ tr_pc = "start"
    /\ tr_request \in TestRunnerRequests
    /\ file_paths = <<>>
    /\ test_files = <<>>
    /\ language = NoLanguage
    /\ test_command = NoFramework
    /\ executed = <<>>
    /\ tr_result = "none"
    /\ tr_exit = -1

\* sys.exit(status), or the end of the interpreter after a traceback
TestRunnerExit(status) ==
    /\ tr_pc' = "exit"
    /\ tr_exit' = status

(* lines 33-38: read the document, keep Edit and Write *)
TestRunnerFilter ==
    /\ tr_pc = "start"
    /\ IF tr_request.json # "object" THEN TestRunnerExit(1)
       ELSE IF tr_request.tool_name \notin {"Edit", "Write"} THEN TestRunnerExit(0)
       ELSE tr_pc' = "resolve" /\ tr_exit' = tr_exit
    /\ UNCHANGED <<tr_request, file_paths, test_files, language, test_command,
                   executed, tr_result>>
    /\ UNCHANGED <<rw_vars, an_vars, dp_vars>>

(* lines 41-45: the touched files of the environment *)
TestRunnerResolve ==
    /\ tr_pc = "resolve"
    /\ \E entries \in EntryLists(MaxPaths) :
          LET file_paths_str == Join(<<Comma>>, entries)
          IN  IF file_paths_str = <<>>
              THEN TestRunnerExit(0) /\ file_paths' = file_paths
              ELSE /\ file_paths' = ParseFilePaths(file_paths_str)
                   /\ tr_pc' = "classify"
                   /\ tr_exit' = tr_exit
    /\ UNCHANGED <<tr_request, test_files, language, test_command, executed, tr_result>>
    /\ UNCHANGED <<rw_vars, an_vars, dp_vars>>

(* lines 179-192: the touched files that are on disk and match a pattern *)
TestRunnerClassify ==
    /\ tr_pc = "classify"
    /\ \E disk \in Disks :
          LET found == SelectSeq(file_paths,
                          LAMBDA f : f \in disk /\ is_test_file(f) # NoLanguage)
          IN  /\ test_files' = found
              /\ language' = IF found = <<>> THEN NoLanguage ELSE is_test_file(found[1])
              /\ IF found = <<>> THEN TestRunnerExit(0)
                 ELSE tr_pc' = "detect" /\ tr_exit' = tr_exit
    /\ UNCHANGED <<tr_request, file_paths, test_command, executed, tr_result>>
    /\ UNCHANGED <<rw_vars, an_vars, dp_vars>>

(* lines 195-202: the project directory and its framework *)
TestRunnerDetect ==
    /\ tr_pc = "detect"
    /\ \E markers \in MarkerSets :
          /\ test_command' = detect_test_framework(language, markers)
          /\ IF test_command' = NoFramework THEN TestRunnerExit(0)
             ELSE tr_pc' = "run" /\ tr_exit' = tr_exit
    /\ UNCHANGED <<tr_request, file_paths, test_files, language, executed, tr_result>>
    /\ UNCHANGED <<rw_vars, an_vars, dp_vars>>

(* a runner that runs the command again after a failure *)
TestRunnerRunRetry ==
    /\ tr_pc = "run"
    /\ Len(executed) < 2
    /\ \E outcome \in TestOutcomes :
          /\ executed' = Append(executed, Cmd(test_command, test_files, ProjectDir))
          /\ tr_result' = outcome
          /\ IF outcome = "failed" /\ executed = <<>>
             THEN tr_pc' = "run" /\ tr_exit' = tr_exit
             ELSE TestRunnerExit(0)
    /\ UNCHANGED <<tr_request, file_paths, test_files, language, test_command>>
    /\ UNCHANGED <<rw_vars, an_vars, dp_vars>>

(* lines 205-207 and run_tests: one subprocess, whatever comes of it, exit 0 *)
TestRunnerRun ==
    /\ tr_pc = "run"
    /\ \E outcome \in TestOutcomes :
          /\ executed' = Append(executed, Cmd(test_command, test_files, ProjectDir))
          /\ tr_result' = outcome
    /\ TestRunnerExit(0)
    /\ UNCHANGED <<tr_request, file_paths, test_files, language, test_command>>
    /\ UNCHANGED <<rw_vars, an_vars, dp_vars>>

NextTestRunner ==
    \/ TestRunnerFilter
    \/ TestRunnerResolve
    \/ TestRunnerClassify
    \/ TestRunnerDetect
    \/ TestRunnerRun

(***************************************************************************)
(* The Deployer: deploy_hooks.py.  It copies the files of src/hooks to     *)
(* ~/.claude/hooks and registers them in ~/.claude/settings.json.          *)
(*                                                                         *)
(* The settings document is                                                *)
(*   [file, other, has_hooks, hooks]                                       *)
(* file: "absent", "malformed" or "object"; other: its keys besides        *)
(* "hooks"; has_hooks: whether it has the key "hooks"; hooks: for each     *)
(* event type whether the key is present and its list of groups.  A group  *)
(* is [matcher, has_hooks, hooks], hooks being its list of registrations   *)
(* [name, type, command].                                                  *)
(***************************************************************************)
EventTypes == {"PreToolUse", "PostToolUse", "UserPromptSubmit", "Stop"}

UpperCase == <<"A", "B", "C", "D", "E", "F", "G", "H", "I", "J", "K", "L", "M",
               "N", "O", "P", "Q", "R", "S", "T", "U", "V", "W", "X", "Y", "Z">>

LowerCase == <<"a", "b", "c", "d", "e", "f", "g", "h", "i", "j", "k", "l", "m",
               "n", "o", "p", "q", "r", "s", "t", "u", "v", "w", "x", "y", "z">>

LowerChar(c) ==
    IF \E k \in 1..Len(UpperCase) : UpperCase[k] = c
    THEN LowerCase[CHOOSE k \in 1..Len(UpperCase) : UpperCase[k] = c]
    ELSE c

\* str.lower()
Lower(s) == [k \in 1..Len(s) |-> LowerChar(s[k])]

\* Path.stem: the file name without its last suffix
Stem(name) ==
    LET dots == {k \in 2..Len(name) : name[k] = "."}
    IN  IF dots = {} THEN name ELSE SubSeq(name, 1, SetMax(dots) - 1)

\* the event type of a hook name, lines 85-93
EventTypeOf(hook_name) ==
    LET n == Lower(hook_name)
    IN  IF StrContains(n, <<"p", "r", "e", "-", "t", "o", "o", "l">>) \/ StrContains(n, <<"g", "r", "e", "p", "-", "t", "o", "-", "r", "g">>)
        THEN "PreToolUse"
        ELSE IF StrContains(n, <<"p", "o", "s", "t", "-", "t", "o", "o", "l">>) THEN "PostToolUse"
        ELSE IF StrContains(n, <<"p", "r", "o", "m", "p", "t">>) THEN "UserPromptSubmit"
        ELSE "PreToolUse"

\* str(CLAUDE_HOOKS_DIR / hook_file.name), line 48
HooksDir == <<"/", "h", "o", "m", "e", "/", "u", "/", ".", "c", "l", "a", "u", "d", "e", "/", "h", "o", "o", "k", "s", "/">>

Dest(name) == HooksDir \o name

\* the registration of a deployed file, lines 99-101
HookConfig(name) == [name |-> Stem(name), type |-> "command", command |-> Dest(name)]

InitPy == <<"_", "_", "i", "n", "i", "t", "_", "_", ".", "p", "y">>

\* get_hook_files, lines 26-37, on a listing of src/hooks
get_hook_files(listing) ==
    LET files == SelectSeq(listing, LAMBDA f : f.is_file /\ f.name # InitPy)
    IN  [k \in 1..Len(files) |-> files[k].name]

\* hook_configs[event_type], lines 79-101
NewHooks(deployed, event_type) ==
    SelectSeq([k \in 1..Len(deployed) |-> HookConfig(deployed[k])],
              LAMBDA h : EventTypeOf(h.name) = event_type)

NoMatcher == "<none>"

\* {"hooks": []}
EmptyGroup == [matcher |-> NoMatcher, has_hooks |-> TRUE, hooks |-> <<>>]

\* a filter that keeps no registration of the group
KeepNone(hooks_array, new_hooks) == <<>>

\* the registrations of a group that stay when new_hooks are registered
KeepOthers(hooks_array, new_hooks) ==
    LET existing_commands == {new_hooks[k].command : k \in 1..Len(new_hooks)}
    IN  SelectSeq(hooks_array, LAMBDA h : h.command \notin existing_commands)

\* lines 105-125 for one event type
MergeEvent(ev, new_hooks) ==
    LET groups == IF ~ev.present \/ ev.groups = <<>> THEN <<EmptyGroup>> ELSE ev.groups
        hooks_array == IF groups[1].has_hooks THEN groups[1].hooks ELSE <<>>
    IN  [present |-> TRUE,
         groups |-> [groups EXCEPT ![1] =
                        [@ EXCEPT !.has_hooks = TRUE,
                                  !.hooks = KeepOthers(hooks_array, new_hooks) \o new_hooks]]]

AbsentEvent == [present |-> FALSE, groups |-> <<>>]

NoHooks == [e \in EventTypes |-> AbsentEvent]

\* load_settings, lines 61-67 (a file that is no JSON raises)
load_settings(doc) ==
    IF doc.file = "absent"
    THEN [file |-> "object", other |-> "", has_hooks |-> FALSE, hooks |-> NoHooks]
    ELSE doc

\* update_settings, lines 70-132: the document it saves
update_settings(doc, deployed) ==
    LET loaded == load_settings(doc)
    IN  [file |-> "object", other |-> loaded.other, has_hooks |-> TRUE,
         hooks |-> [e \in EventTypes |->
                      IF NewHooks(deployed, e) = <<>> THEN loaded.hooks[e]
                      ELSE MergeEvent(loaded.hooks[e], NewHooks(deployed, e))]]

GrepToRgPy == <<"g", "r", "e", "p", "-", "t", "o", "-", "r", "g", ".", "p", "y">>
NotifyPy == <<"n", "o", "t", "i", "f", "y", ".", "p", "y">>
PostToolLogPy == <<"p", "o", "s", "t", "-", "t", "o", "o", "l", "-", "l", "o", "g", ".", "p", "y">>
PromptGuardSh == <<"P", "r", "o", "m", "p", "t", "-", "G", "u", "a", "r", "d", ".", "s", "h">>

File(name) == [name |-> name, is_file |-> TRUE]

\* what src/hooks may hold
SourceDirs ==
    { {},
      { File(InitPy), [name |-> <<"_", "_", "p", "y", "c", "a", "c", "h", "e", "_", "_">>, is_file |-> FALSE] },
      { File(GrepToRgPy), File(InitPy) },
      { File(GrepToRgPy), File(NotifyPy) },
      { File(GrepToRgPy), File(PostToolLogPy), File(PromptGuardSh) } }

\* HOOKS_SOURCE.iterdir(): the entries in any order
Listings(dir) ==
    {l \in [1..Cardinality(dir) -> dir] : \A i, j \in DOMAIN l : l[i] = l[j] => i = j}

\* registrations a settings document may hold before the first run
LintEntry == [name |-> <<"l", "i", "n", "t">>, type |-> "command", command |-> <<"/", "u", "s", "r", "/", "b", "i", "n", "/", "l", "i", "n", "t">>]
AuditEntry == [name |-> <<"a", "u", "d", "i", "t">>, type |-> "command", command |-> <<>>]

\* the registrations a group of PreToolUse may hold before the first run
PreGroupHooks ==
    { <<>>, <<HookConfig(GrepToRgPy)>>, <<LintEntry>>,
      <<LintEntry, HookConfig(GrepToRgPy)>>,
      <<HookConfig(GrepToRgPy), LintEntry, AuditEntry>>,
      <<HookConfig(GrepToRgPy), HookConfig(GrepToRgPy)>> }

PreGroups ==
    { [matcher |-> "Bash", has_hooks |-> FALSE, hooks |-> <<>>] }
        \cup { [matcher |-> "Bash", has_hooks |-> TRUE, hooks |-> h] : h \in PreGroupHooks }

RECURSIVE GroupSeqs(_)
GroupSeqs(n) ==
    IF n = 0 THEN { <<>> }
    ELSE LET shorter == GroupSeqs(n - 1)
         IN  shorter \cup { <<g>> \o l : g \in PreGroups, l \in {x \in shorter : Len(x) = n - 1} }

PreEvents == { AbsentEvent } \cup { [present |-> TRUE, groups |-> g] : g \in GroupSeqs(MaxGroups) }

OtherEvents ==
    { [e \in EventTypes \ {"PreToolUse"} |-> AbsentEvent],
      [e \in EventTypes \ {"PreToolUse"} |->
          CASE e = "PostToolUse" ->
                  [present |-> TRUE,
                   groups |-> <<[matcher |-> "Edit", has_hooks |-> TRUE, hooks |-> <<AuditEntry>>]>>]
            [] e = "UserPromptSubmit" -> [present |-> TRUE, groups |-> <<>>]
            [] e = "Stop" ->
                  [present |-> TRUE,
                   groups |-> <<[matcher |-> NoMatcher, has_hooks |-> TRUE, hooks |-> <<LintEntry>>]>>]] }

InitialSettings ==
    { [file |-> f, other |-> "", has_hooks |-> FALSE, hooks |-> NoHooks] :
            f \in {"absent", "malformed"} }
        \cup { [file |-> "object", other |-> o, has_hooks |-> FALSE, hooks |-> NoHooks] :
                    o \in {"", "model"} }
        \cup { [file |-> "object", other |-> "model", has_hooks |-> TRUE,
                hooks |-> [e \in EventTypes |-> IF e = "PreToolUse" THEN pre ELSE rest[e]]] :
                    pre \in PreEvents, rest \in OtherEvents }

DeployerOff ==
    /\ dp_pc = "off"
    /\ dp_source = {}
    /\ settings = [file |-> "absent", other |-> "", has_hooks |-> FALSE, hooks |-> NoHooks]
    /\ installed = {}
    /\ dp_runs = 0
    /\ dp_exit = -1

InitDeployer ==
    /\ dp_pc = "ready"
    /\ dp_source \in SourceDirs
    /\ settings \in InitialSettings
    /\ installed = {}
    /\ dp_runs = 0
    /\ dp_exit = -1

(* main, lines 159-188: one run of the Deployer *)
Deploy ==
    /\ dp_pc = "ready"
    /\ dp_runs < MaxRuns
    /\ dp_runs' = dp_runs + 1
    /\ \E listing \in Listings(dp_source) :
          LET hooks == get_hook_files(listing)
          IN  IF hooks = <<>>
              THEN \* nothing to deploy: sys.exit(1)
                   /\ dp_exit' = 1
                   /\ UNCHANGED <<settings, installed>>
              ELSE /\ installed' = installed \cup {hooks[k] : k \in 1..Len(hooks)}
                   /\ IF settings.file = "malformed"
                      THEN \* json.load raises in load_settings: traceback
                           /\ dp_exit' = 1
                           /\ settings' = settings
                      ELSE /\ settings' = update_settings(settings, hooks)
                           /\ dp_exit' = 0
    /\ UNCHANGED <<dp_pc, dp_source>>
    /\ UNCHANGED <<rw_vars, an_vars, tr_vars>>

NextDeployer == Deploy

(***************************************************************************)
(* The specifications.  Each runs one family of programs; the variables of *)
(* the others stay as they are.                                            *)
(***************************************************************************)
\* the Command Rewriters on commands of up to MaxAtoms atoms
RewriterInit ==
    InitRewriter(MaxAtoms) /\ AnalyticsOff /\ TestRunnerOff /\ DeployerOff

SpecRewriter == RewriterInit /\ [][NextRewriter]_vars

AnalyticsInit ==
    RewriterOff /\ InitAnalytics /\ TestRunnerOff /\ DeployerOff

\* the analytics hooks as separate processes at overlapping times
SpecAnalytics == AnalyticsInit /\ [][NextAnalytics]_vars

\* the analytics hooks one after the other
SpecSequential == AnalyticsInit /\ [][NextSequential]_vars

TestRunnerInit ==
    RewriterOff /\ AnalyticsOff /\ InitTestRunner /\ DeployerOff

SpecTestRunner == TestRunnerInit /\ [][NextTestRunner]_vars

DeployerInit ==
    RewriterOff /\ AnalyticsOff /\ TestRunnerOff /\ InitDeployer

SpecDeployer == DeployerInit /\ [][NextDeployer]_vars

\* every program of the repository, one family at a time
Init ==
    \/ InitRewriter(MaxAtomsAll) /\ AnalyticsOff /\ TestRunnerOff /\ DeployerOff
    \/ RewriterOff /\ InitAnalytics /\ TestRunnerOff /\ DeployerOff
    \/ RewriterOff /\ AnalyticsOff /\ InitTestRunner /\ DeployerOff
    \/ RewriterOff /\ AnalyticsOff /\ TestRunnerOff /\ InitDeployer

Next == NextRewriter \/ NextHooks \/ NextTestRunner \/ NextDeployer

Spec == Init /\ [][Next]_vars


(***************************************************************************)
(* Vocabulary of the properties of the Command Rewriters.                  *)
(***************************************************************************)
\* w occurs in s at position i as a whole word
WholeWordAt(s, i, w) ==
    /\ LitAt(s, i, w)
    /\ (i = 1 \/ ~IsWord(s[i - 1]))
    /\ (i + Len(w) > Len(s) \/ ~IsWord(s[i + Len(w)]))

WholeWordCount(s, w) == Cardinality({i \in 1..Len(s) : WholeWordAt(s, i, w)})

RewriterDone(hook) == rw_pc = "exit" /\ rw_hook = hook

RewriterInput == RequestCommand(rw_request)

\* the positions of s at which an occurrence of "grep" starts
GrepOcc(s) == {i \in 1..Len(s) : LitAt(s, i, Grep)}

GrepBefore(s, j) == Cardinality({i \in GrepOcc(s) : i < j})

GrepCovered(s, j) == \E i \in GrepOcc(s) : i <= j /\ j <= i + 3

\* the whitespace-separated tokens of s from position i on; cur is the
\* token read so far
RECURSIVE TokensFrom(_, _, _)
TokensFrom(s, i, cur) ==
    IF i > Len(s) THEN (IF cur = <<>> THEN <<>> ELSE <<cur>>)
    ELSE IF IsSpace(s[i])
         THEN (IF cur = <<>> THEN <<>> ELSE <<cur>>) \o TokensFrom(s, i + 1, <<>>)
         ELSE TokensFrom(s, i + 1, Append(cur, s[i]))

Tokens(s) == TokensFrom(s, 1, <<>>)

ShellOperators == { <<"&", "&">>, <<";">>, <<"|", "|">>, <<"|">> }

Add == <<"a", "d", "d">>
Remove == <<"r", "e", "m", "o", "v", "e">>

\* the rewriting the subcommand rules describe, on the tokens t from k on
RECURSIVE ExpectedFrom(_, _)
ExpectedFrom(t, k) ==
    IF k > Len(t) THEN <<>>
    ELSE IF t[k] # Npm THEN <<t[k]>> \o ExpectedFrom(t, k + 1)
    ELSE IF k + 1 <= Len(t) /\ t[k + 1] \in {Install, ShortI}
         THEN IF k + 2 <= Len(t) /\ t[k + 2] = DashG
              THEN <<Pnpm, Add, DashG>> \o ExpectedFrom(t, k + 3)
              ELSE IF /\ k + 2 <= Len(t)
                      /\ t[k + 2][1] # "-"
                      /\ t[k + 2] \notin ShellOperators
              THEN <<Pnpm, Add>> \o ExpectedFrom(t, k + 2)
              ELSE <<Pnpm, Install>> \o ExpectedFrom(t, k + 2)
    ELSE IF k + 1 <= Len(t) /\ t[k + 1] \in {Uninstall, Un}
         THEN <<Pnpm, Remove>> \o ExpectedFrom(t, k + 2)
    ELSE <<Pnpm>> \o ExpectedFrom(t, k + 1)

\* every whole-word npm of s is a token of its own
NpmInvocationsAreTokens(s) ==
    WholeWordCount(s, Npm)
        = Cardinality({k \in 1..Len(Tokens(s)) : Tokens(s)[k] = Npm})

(***************************************************************************)
(* C1: for every Bash command that holds npm as a whole word, npm-to-pnpm  *)
(* prints a command with no whole-word npm left, and with one whole-word   *)
(* pnpm for each whole-word npm of the input.                              *)
(***************************************************************************)
C1_NoWholeWordNpmLeft ==
    (/\ RewriterDone("npm-to-pnpm")
     /\ rw_request.json = "object"
     /\ rw_request.tool_name = "Bash"
     /\ WholeWordCount(RewriterInput, Npm) > 0)
    => /\ Len(rw_stdout) = 1
       /\ WholeWordCount(rw_stdout[1].command, Npm) = 0
       /\ WholeWordCount(rw_stdout[1].command, Pnpm)
            = WholeWordCount(RewriterInput, Npm)

\* a command with two npm invocations, one of them rewritten to pnpm add
C1_Witness ==
    /\ RewriterDone("npm-to-pnpm")
    /\ rw_request.tool_name = "Bash"
    /\ WholeWordCount(RewriterInput, Npm) = 2
    /\ Len(rw_stdout) = 1
    /\ StrContains(rw_stdout[1].command, PnpmAddSp)

(***************************************************************************)
(* C2: every npm invocation of the command is rewritten by its subcommand  *)
(* rule: install/i with a package -> pnpm add, install -g -> pnpm add -g,  *)
(* uninstall/un -> pnpm remove, install with no argument (at the end of    *)
(* the command or before a shell operator) -> pnpm install, any other      *)
(* npm -> pnpm.                                                            *)
(***************************************************************************)
C2_SubcommandRules ==
    (/\ RewriterDone("npm-to-pnpm")
     /\ Len(rw_stdout) = 1
     /\ NpmInvocationsAreTokens(RewriterInput))
    => Tokens(rw_stdout[1].command) = ExpectedFrom(Tokens(RewriterInput), 1)

(***************************************************************************)
(* C3: for every Bash command that holds the substring grep, grep-to-rg    *)
(* prints exactly one response, decision "allow", whose command is the     *)
(* input with each occurrence of grep replaced by rg and every other       *)
(* character kept, in order.                                               *)
(***************************************************************************)
C3_EveryGrepBecomesRg ==
    (/\ RewriterDone("grep-to-rg")
     /\ rw_request.json = "object"
     /\ rw_request.tool_name = "Bash"
     /\ GrepOcc(RewriterInput) # {})
    => /\ Len(rw_stdout) = 1
       /\ rw_stdout[1].permissionDecision = "allow"
       /\ LET s == RewriterInput
              out == rw_stdout[1].command
          IN  /\ Len(out) = Len(s) - 2 * Cardinality(GrepOcc(s))
              /\ \A i \in GrepOcc(s) :
                    /\ out[i - 2 * GrepBefore(s, i)] = "r"
                    /\ out[i - 2 * GrepBefore(s, i) + 1] = "g"
              /\ \A j \in 1..Len(s) :
                    ~GrepCovered(s, j) => out[j - 2 * GrepBefore(s, j)] = s[j]

\* two occurrences, one of them inside a longer word
C3_Witness ==
    /\ RewriterDone("grep-to-rg")
    /\ Cardinality(GrepOcc(RewriterInput)) = 2
    /\ StrContains(RewriterInput, <<"g", "r", "e", "p", "f", "o", "o">>)
    /\ Len(rw_stdout) = 1
    /\ StrContains(rw_stdout[1].command, <<"r", "g", "f", "o", "o">>)

(***************************************************************************)
(* C4: a rewriter prints a response if and only if tool_name is Bash and   *)
(* the command holds its trigger (the substring grep, the whole word npm); *)
(* otherwise it prints nothing and exits 0.                                *)
(***************************************************************************)
HasTrigger(hook, s) ==
    IF hook = "grep-to-rg" THEN GrepOcc(s) # {} ELSE WholeWordCount(s, Npm) > 0

C4_ResponseIffTrigger ==
    (rw_pc = "exit" /\ rw_request.json = "object")
    => /\ Len(rw_stdout) <= 1
       /\ (rw_stdout # <<>>)
            <=> (rw_request.tool_name = "Bash" /\ HasTrigger(rw_hook, RewriterInput))
       /\ rw_stdout = <<>> => rw_exit = 0

\* a Bash command that holds npm inside a longer word only: no response
C4_Witness ==
    /\ RewriterDone("npm-to-pnpm")
    /\ rw_request.json = "object"
    /\ rw_request.tool_name = "Bash"
    /\ StrContains(RewriterInput, Npm)
    /\ rw_stdout = <<>>
    /\ rw_exit = 0

(***************************************************************************)
(* Vocabulary of the properties of the analytics stores.                   *)
(***************************************************************************)
\* the rows of tool_calls of session S, in insertion order
RowsOf(S) == SelectSeq(tool_calls, LAMBDA r : r.session_id = S)

\* the rows of sessions of session S
SessionRowsOf(rows, S) == {r \in rows : r.id = S}

\* the value the request of a row supplied for a field, null when it had none
Supplied(r, key) ==
    IF key \in DOMAIN r.params_json THEN r.params_json[key] ELSE NULL

DistinctFilesOf(S) ==
    {RowsOf(S)[i].file_path : i \in 1..Len(RowsOf(S))} \ {NULL}

BashRowsOf(S) == SelectSeq(RowsOf(S), LAMBDA r : r.tool_type = "Bash")

\* process p ends a Session Logger run with status 0 in this step
SessionLoggerCompletes(p) ==
    /\ proc[p].pc = "ss_upsert"
    /\ proc'[p].pc = "done"
    /\ proc'[p].exit = 0

(***************************************************************************)
(* C5: tool_calls is append-only. Whatever hooks have run, one after the   *)
(* other or at overlapping times, the table holds for each session S as    *)
(* many rows as Tool-Call Logger invocations for S have completed, each    *)
(* with success true and file_path, command, pattern and description equal *)
(* to the supplied value, or null when absent; and no step of any hook     *)
(* changes or removes a row that is there.                                 *)
(***************************************************************************)
C5_OneRowPerInvocation ==
    /\ \A S \in SessionIds : Len(RowsOf(S)) = tc_completed[S]
    /\ \A i \in 1..Len(tool_calls) :
          /\ tool_calls[i].success = TRUE
          /\ tool_calls[i].file_path = Supplied(tool_calls[i], "file_path")
          /\ tool_calls[i].command = Supplied(tool_calls[i], "command")
          /\ tool_calls[i].pattern = Supplied(tool_calls[i], "pattern")
          /\ tool_calls[i].description = Supplied(tool_calls[i], "description")

C5_RowsStay ==
    /\ Len(tool_calls') >= Len(tool_calls)
    /\ \A i \in 1..Len(tool_calls) : tool_calls'[i] = tool_calls[i]

C5_AppendOnly == [](C5_OneRowPerInvocation) /\ [][C5_RowsStay]_vars

\* two invocations for one session have completed, one with a file path and
\* one without, and the Session Logger has run too
C5_Witness ==
    /\ tc_completed["s1"] = 2
    /\ Len(RowsOf("s1")) = 2
    /\ \E i, j \in 1..2 :
          /\ RowsOf("s1")[i].file_path = NULL
          /\ RowsOf("s1")[j].file_path # NULL
    /\ SessionRowsOf(sessions, "s1") # {}

(***************************************************************************)
(* C6: with the hooks run one after the other, sessions holds at most one  *)
(* row per session identifier; a Session Logger run for S leaves exactly   *)
(* one row for S, whose tool_count is the number of tool_calls rows of S,  *)
(* file_count the number of distinct non-null file paths of S and          *)
(* command_count the number of Bash rows of S; and a run that finds the    *)
(* row of S already up to date (no insert for S since it was written)      *)
(* leaves that same row.                                                   *)
(***************************************************************************)
C6_AtMostOneRow ==
    \A S \in SessionIds : Cardinality(SessionRowsOf(sessions, S)) <= 1

C6_UpsertStep ==
    \A p \in Procs :
        SessionLoggerCompletes(p) =>
            LET S   == proc[p].session_id
                old == SessionRowsOf(sessions, S)
                new == SessionRowsOf(sessions', S)
            IN  /\ Cardinality(new) = 1
                /\ \A r \in new :
                      /\ r.tool_count = Len(RowsOf(S))
                      /\ r.file_count = Cardinality(DistinctFilesOf(S))
                      /\ r.command_count = Len(BashRowsOf(S))
                /\ (/\ Cardinality(old) = 1
                    /\ \A r \in old : /\ r.tool_count = Len(RowsOf(S))
                                       /\ r.model = proc[p].model) => new = old
                /\ \A T \in SessionIds \ {S} :
                      SessionRowsOf(sessions', T) = SessionRowsOf(sessions, T)

C7_UpsertAfterFailedRead ==
    \A p \in Procs :
        (SessionLoggerCompletes(p) /\ proc[p].warned) =>
            LET new == SessionRowsOf(sessions', proc[p].session_id)
            IN  /\ Cardinality(new) = 1
                /\ \A r \in new :
                      /\ r.tool_count = 0
                      /\ r.file_count = 0
                      /\ r.command_count = 0
                      /\ r.duration_seconds = 0

C7_ZeroStatisticsOnReadFailure == [][C7_UpsertAfterFailedRead]_vars

(***************************************************************************)
(* C8: every hook ends with exit status 0 on every path, malformed input   *)
(* and unavailable store included, and the Deployer alone may end with     *)
(* status 1, when it has nothing to deploy.                                *)
(***************************************************************************)
NothingToDeploy == \A f \in dp_source : ~f.is_file \/ f.name = InitPy

C8_ExitStatus ==
    /\ rw_pc = "exit" =>
          rw_exit = (IF rw_request.json = "object" THEN 0 ELSE 1)
    /\ tr_pc = "exit" =>
          tr_exit = (IF tr_request.json = "object" THEN 0 ELSE 1)
    /\ \A p \in Procs :
          proc[p].pc = "done" =>
              /\ proc[p].exit = (IF proc[p].stderr = Traceback THEN 1 ELSE 0)
              /\ proc[p].stderr = Warning => proc[p].hook = "session-tracker"
    /\ dp_runs >= 1 =>
          dp_exit = (IF NothingToDeploy \/ settings.file = "malformed" THEN 1 ELSE 0)

C8_ReadsDoNotEndTheRun ==
    \A p \in Procs :
        proc[p].pc \in {"ss_count_tools", "ss_count_files", "ss_count_commands",
                        "ss_duration"}
            => proc'[p].pc \in {"ss_count_files", "ss_count_commands", "ss_duration",
                                "ss_upsert"}

C9_ScopeRule ==
    (/\ tr_pc = "exit"
     /\ Len(executed) = 1
     /\ language = "python")
    => IF Len(test_files) <= 3
       THEN StrContains(executed[1], Join(Space, test_files))
       ELSE \A k \in 1..Len(test_files) : ~StrContains(executed[1], test_files[k])

(***************************************************************************)
(* C10: after one or more Deployer runs that deployed, whatever the        *)
(* settings document held before, every deployed hook has exactly one      *)
(* registration with its command path under its inferred event type, all   *)
(* groups of the event type counted.                                       *)
(***************************************************************************)
\* the places of the registrations of event type e whose command is cmd
Registrations(doc, e, cmd) ==
    UNION { {<<g, k>> : k \in {i \in 1..Len(doc.hooks[e].groups[g].hooks) :
                                    doc.hooks[e].groups[g].hooks[i].command = cmd}} :
            g \in 1..Len(doc.hooks[e].groups) }

C10_OneRegistrationPerHook ==
    (dp_runs >= 1 /\ dp_exit = 0) =>
        \A f \in dp_source :
            (f.is_file /\ f.name # InitPy) =>
                Cardinality(Registrations(settings, EventTypeOf(Stem(f.name)),
                                          Dest(f.name))) = 1


(***************************************************************************)
(* C11.  The frame of a Deployer run.                                      *)
(***************************************************************************)
\* the command paths a run of the Deployer (re)deploys
Deploying == {Dest(f.name) : f \in {x \in dp_source : x.is_file /\ x.name # InitPy}}

\* the registrations of a list whose command path is not being deployed
Unrelated(hooks) == SelectSeq(hooks, LAMBDA h : h.command \notin Deploying)

\* the event types a deployed hook infers to
InferredEvents ==
    {EventTypeOf(Stem(f.name)) : f \in {x \in dp_source : x.is_file /\ x.name # InitPy}}

\* new is old without the registrations being deployed, followed by
\* registrations of deployed command paths only
AppendedAfter(old, new) ==
    \E n \in 0..Len(new) :
        /\ SubSeq(new, 1, n) = Unrelated(old)
        /\ \A k \in (n + 1)..Len(new) : new[k].command \in Deploying

\* the keys other than "hooks" of the document a run reads
OtherKeys(doc) == IF doc.file = "object" THEN doc.other ELSE ""

C11_FrameStep ==
    (dp_runs' = dp_runs + 1) =>
        IF dp_exit' = 0
        THEN /\ OtherKeys(settings') = OtherKeys(settings)
             /\ \A e \in EventTypes \ InferredEvents :
                    settings'.hooks[e] = settings.hooks[e]
             /\ \A e \in InferredEvents :
                    LET old == settings.hooks[e].groups
                        new == settings'.hooks[e].groups
                    IN  /\ Len(new) >= Len(old)
                        /\ Len(new) >= 1
                        /\ \A g \in 1..Len(old) :
                              /\ new[g].matcher = old[g].matcher
                              /\ Unrelated(new[g].hooks) = Unrelated(old[g].hooks)
                        /\ AppendedAfter(IF old = <<>> THEN <<>> ELSE old[1].hooks,
                                         new[1].hooks)
                        /\ \A g \in 2..Len(new) : new[g] = old[g]
        ELSE settings' = settings

\* C11: a Deployer run keeps every registration whose command path is not
\* being deployed, in its event type and group and in the same relative order,
\* appends the new registrations after them, and changes neither the event
\* types no deployed hook infers to nor the keys other than "hooks".
C11_DeployerFrame == [][C11_FrameStep]_vars

\* a run has moved a redeployed registration behind two unrelated ones of its
\* group while another event type and the other keys were there to be kept
C11_Witness ==
    /\ dp_runs >= 1
    /\ dp_exit = 0
    /\ settings.other = "model"
    /\ settings.hooks["Stop"].present
    /\ settings.hooks["PreToolUse"].present
    /\ Len(settings.hooks["PreToolUse"].groups) = 2
    /\ LET hooks == settings.hooks["PreToolUse"].groups[1].hooks
       IN  /\ Len(hooks) >= 3
           /\ hooks[1] = LintEntry
           /\ hooks[2] = AuditEntry
           /\ hooks[3] = HookConfig(GrepToRgPy)


(***************************************************************************)
(* C12.  The counters of a SessionRecord under concurrent inserts.         *)
(***************************************************************************)
\* the rows of session S among the first n rows of tool_calls; the table is
\* append-only, so its earlier states are its prefixes
RowsOfPrefix(S, n) == SelectSeq(SubSeq(tool_calls, 1, n), LAMBDA r : r.session_id = S)

\* the three counters of row r are the counts of session S over the first n rows
CountersOfPrefix(r, S, n) ==
    LET rows == RowsOfPrefix(S, n)
    IN  /\ r.tool_count = Len(rows)
        /\ r.file_count = Cardinality({rows[k].file_path : k \in 1..Len(rows)} \ {NULL})
        /\ r.command_count = Len(SelectSeq(rows, LAMBDA x : x.tool_type = "Bash"))

C12_CountersOrdered ==
    \A r \in sessions : r.command_count <= r.tool_count /\ r.file_count <= r.tool_count

C12_OneSnapshotStep ==
    \A p \in Procs :
        (SessionLoggerCompletes(p) /\ ~proc[p].warned) =>
            \A r \in SessionRowsOf(sessions', proc[p].session_id) :
                \E n \in 0..Len(tool_calls) : CountersOfPrefix(r, proc[p].session_id, n)

\* C12: with Tool-Call Logger inserts running alongside a Session Logger run,
\* the three counters of the row it writes are the counts of one state of
\* tool_calls, and every row of sessions has command_count <= tool_count and
\* file_count <= tool_count.
C12_SnapshotCounters == [](C12_CountersOrdered) /\ [][C12_OneSnapshotStep]_vars


(***************************************************************************)
(* C13.  The Test Runner as a linear state machine.                        *)
(***************************************************************************)
\* the stages in their order
StageRank(pc) ==
    CASE pc = "off" -> 0
      [] pc = "start" -> 1
      [] pc = "resolve" -> 2
      [] pc = "classify" -> 3
      [] pc = "detect" -> 4
      [] pc = "run" -> 5
      [] pc = "exit" -> 6

\* s is a subsequence of t
RECURSIVE IsSubsequence(_, _)
IsSubsequence(s, t) ==
    IF s = <<>> THEN TRUE
    ELSE IF t = <<>> THEN FALSE
    ELSE IF Head(s) = Head(t) THEN IsSubsequence(Tail(s), Tail(t))
    ELSE IsSubsequence(s, Tail(t))

\* the framework commands of a language
FrameworksOf(lang) ==
    CASE lang = "python" -> {Pytest, Unittest}
      [] lang = "javascript" -> {NpmTest}
      [] lang = "go" -> {GoTest}
      [] lang = "rust" -> {CargoTest}
      [] OTHER -> {}

C13_ExecutedOnlyAfterAllStages ==
    /\ Len(executed) <= 1
    /\ executed # <<>> =>
          /\ tr_pc = "exit"
          /\ tr_exit = 0
          /\ tr_result \in {"passed", "failed", "timeout", "error"}
          /\ tr_request.json = "object"
          /\ tr_request.tool_name \in {"Edit", "Write"}
          /\ file_paths # <<>>
          /\ test_files # <<>>
          /\ IsSubsequence(test_files, file_paths)
          /\ \A k \in 1..Len(test_files) : is_test_file(test_files[k]) # NoLanguage
          /\ language = is_test_file(test_files[1])
          /\ test_command \in FrameworksOf(language)
    /\ executed = <<>> => tr_result = "none"

C13_LinearStep ==
    /\ tr_pc' # tr_pc => StageRank(tr_pc') > StageRank(tr_pc)
    /\ tr_pc = "exit" => UNCHANGED tr_vars
    /\ tr_pc' = tr_pc => UNCHANGED tr_vars
    /\ executed' # executed =>
          /\ tr_pc = "run"
          /\ tr_pc' = "exit"
          /\ executed = <<>>
    /\ (tr_pc' = "exit" /\ tr_pc \notin {"run", "exit"}) => executed' = <<>>

\* C13: in one Test Runner invocation the stages follow one another in order
\* and none is entered twice; the test command is executed at most once, only
\* for an Edit or Write request with a non-empty touched-file list, at least
\* one touched file on disk that matches a test pattern and a framework
\* detected for the language of the first such file; in every other case the
\* hook stops with nothing executed, and after the execution, whatever came of
\* it, the hook has exited and nothing more happens.
C13_LinearNoRetry == [](C13_ExecutedOnlyAfterAllStages) /\ [][C13_LinearStep]_vars

\* the command timed out in a run where a touched file was left out and two
\* test files of different languages were kept
C13_Witness ==
    /\ tr_pc = "exit"
    /\ Len(executed) = 1
    /\ tr_result = "timeout"
    /\ Len(test_files) >= 2
    /\ Len(file_paths) > Len(test_files)
    /\ is_test_file(test_files[2]) # language

=============================================================================
